---- MODULE Spec2Model ----
(***************************************************************************)
(* A model of the Combat Mission agent bridge: the grid mapper             *)
(* (interface/input.py), the episode controller (env/combat_mission_env.py)*)
(* and the gameplay recorder (training/recorder.py).                       *)
(*                                                                         *)
(* The specifications share the variables:                                 *)
(*   SpecGrid  the pure grid arithmetic, applied to drawn inputs           *)
(*   SpecEnv   reset()/step() of CombatMissionEnv, driven by one thread,   *)
(*             with the default small observation, whose capture succeeds  *)
(*   SpecObs   the capture functions of ScreenCapture and reset()/step()   *)
(*             without OCR, in both observation modes, with captures that  *)
(*             may fail                                                    *)
(*   SpecRec   GameplayRecorder.start(): control loop, pointer listener    *)
(*             thread and keyboard listener thread, interleaved            *)
(* Rewards are Python floats holding integer values; they are modelled as  *)
(* integers.  Record timestamps (time.time()) are left out of the records. *)
(***************************************************************************)
EXTENDS Integers, Sequences, FiniteSets, TLC

VARIABLES
    cfg,            \* CONFIG: window rectangle and grid (config.py)
    \* ---- grid arithmetic (SpecGrid)
    gres,           \* result of the last grid operation applied
    \* ---- CombatMissionEnv (SpecEnv)
    ocr,            \* self.ocr is not None
    use_small_obs,  \* self.use_small_obs
    prev_score,     \* self.prev_score
    turn_count,     \* self.turn_count
    action_count,   \* self.action_count
    ret,            \* what the last reset()/step() call returned
    before,         \* history: the episode state on entry to the last call
    events,         \* what the last call did, in order (input commands, waits, ...)
    since_reset,    \* history: step() calls made and rewards returned since the
                    \* last reset()
    \* ---- GameplayRecorder (SpecRec)
    capture_on_click, \* self.capture_on_click
    running,        \* self.running
    stop_requested, \* self.stop_requested
    records,        \* self.records
    frame_count,    \* self.frame_count
    held,           \* [shift, ctrl, alt] : self.shift_held, self.ctrl_held, self.alt_held
    files,          \* frame numbers of the frame_NNNNN.npy files in the session directory
    saves,          \* number of np.save calls made
    log,            \* content of actions.json (a sequence of records) once written
    flushes,        \* number of times actions.json has been written
    listening,      \* [mouse, keyboard] : the listener still delivers events
    mainpc,         \* control thread: position in start()
    mpc, mloc,      \* pointer listener thread: position in _on_click and its locals
    kpc, kloc,      \* keyboard listener thread: position in _on_key_press and its locals
    hist            \* history: events delivered so far, records at the stop key press

gridVars == <<gres>>
envVars  == <<ocr, use_small_obs, prev_score, turn_count, action_count, ret, before, events,
              since_reset>>
recVars  == <<capture_on_click, running, stop_requested, records, frame_count, held,
              files, saves, log, flushes, listening, mainpc, mpc, mloc, kpc, kloc, hist>>
vars     == <<cfg, gres, ocr, use_small_obs, prev_score, turn_count, action_count, ret, before, events,
              since_reset,
              capture_on_click, running, stop_requested, records, frame_count, held,
              files, saves, log, flushes, listening, mainpc, mpc, mloc, kpc, kloc, hist>>

(***************************************************************************)
(* Bounds of the model.                                                    *)
(***************************************************************************)
MaxDim     == 6    \* window width and height range over 1..MaxDim in SpecGrid
MaxGrid    == 3    \* rows and cols range over 1..MaxGrid in SpecGrid
MaxMargin  == 1    \* each margin ranges over 0..MaxMargin in SpecGrid
MaxActions == 52   \* step() calls per episode in SpecEnv (the cap is 50 turns)
MaxCommands == 3   \* of these, the calls that do not end a turn
MaxRecords == 2    \* input events taken for recording in SpecRec

Min(a, b) == IF a < b THEN a ELSE b
Max(a, b) == IF a > b THEN a ELSE b

(***************************************************************************)
(* config.py                                                               *)
(***************************************************************************)
MkConfig(l, t, w, h, r, c, mt, mb, ml, mr) ==
    [left |-> l, top |-> t, width |-> w, height |-> h, rows |-> r, cols |-> c,
     margin_top |-> mt, margin_bottom |-> mb, margin_left |-> ml, margin_right |-> mr]

\* Hotkeys
HK_end_turn        == "enter"
HK_cycle_unit      == "tab"
HK_move_fast       == "f"
HK_move_quick      == "q"
HK_target          == "t"
HK_camera_top_down == "9"

(***************************************************************************)
(* interface/input.py : the grid mapper                                    *)
(***************************************************************************)
\* InputController.__init__: the pre-calculated cell dimensions (Python //)
cell_width(c)  == (c.width - c.margin_left - c.margin_right) \div c.cols
cell_height(c) == (c.height - c.margin_top - c.margin_bottom) \div c.rows

\* a configuration whose cell dimensions are positive
ValidConfig(c) ==
    /\ c.rows >= 1 /\ c.cols >= 1
    /\ c.width - c.margin_left - c.margin_right >= c.cols
    /\ c.height - c.margin_top - c.margin_bottom >= c.rows

grid_to_screen_off(c, row, col) ==
    <<c.left + c.margin_left + col * cell_width(c) + cell_width(c),
      c.top + c.margin_top + row * cell_height(c) + cell_height(c)>>

grid_to_screen_corner(c, row, col) ==
    <<c.left + c.margin_left + col * cell_width(c),
      c.top + c.margin_top + row * cell_height(c)>>

\* InputController.grid_to_screen: <<x, y>>, the centre of the cell
grid_to_screen(c, row, col) ==
    <<c.left + c.margin_left + col * cell_width(c) + cell_width(c) \div 2,
      c.top + c.margin_top + row * cell_height(c) + cell_height(c) \div 2>>

click_grid_cell_byrows(c, cell_id) == <<cell_id \div c.rows, cell_id % c.rows>>

\* InputController.click_grid: <<row, col>> of a flat index
click_grid_cell(c, cell_id) == <<cell_id \div c.cols, cell_id % c.cols>>

\* InputController.click_grid: the click it issues
click_grid(c, cell_id) ==
    LET rc == click_grid_cell(c, cell_id)
        xy == grid_to_screen(c, rc[1], rc[2])
    IN  [cmd |-> "click", x |-> xy[1], y |-> xy[2], button |-> "left", key |-> ""]

\* InputController.press_key: one press and release of a key
press_key(k) == [cmd |-> "key", x |-> 0, y |-> 0, button |-> "", key |-> k]

(***************************************************************************)
(* training/recorder.py : screen point to grid cell (in _on_click)         *)
(***************************************************************************)
is_in_game_window_closed(c, x, y) ==
    /\ c.left <= x /\ x <= c.left + c.width
    /\ c.top <= y /\ y <= c.top + c.height

\* GameplayRecorder._is_in_game_window
is_in_game_window(c, x, y) ==
    /\ c.left <= x /\ x < c.left + c.width
    /\ c.top <= y /\ y < c.top + c.height

on_click_cell_nomargin(c, x, y) ==
    LET rel_x == x - c.left
        rel_y == y - c.top
        cell_w == (c.width - c.margin_left - c.margin_right) \div c.cols
        cell_h == (c.height - c.margin_top - c.margin_bottom) \div c.rows
    IN  <<Max(0, Min(c.rows - 1, rel_y \div cell_h)),
          Max(0, Min(c.cols - 1, rel_x \div cell_w))>>

on_click_cell_unclamped(c, x, y) ==
    LET rel_x == x - c.left - c.margin_left
        rel_y == y - c.top - c.margin_top
        cell_w == (c.width - c.margin_left - c.margin_right) \div c.cols
        cell_h == (c.height - c.margin_top - c.margin_bottom) \div c.rows
    IN  <<rel_y \div cell_h, rel_x \div cell_w>>

\* _on_click: <<row, col>> of a screen point, clamped to the grid
on_click_cell(c, x, y) ==
    LET rel_x == x - c.left - c.margin_left
        rel_y == y - c.top - c.margin_top
        cell_w == (c.width - c.margin_left - c.margin_right) \div c.cols
        cell_h == (c.height - c.margin_top - c.margin_bottom) \div c.rows
    IN  <<Max(0, Min(c.rows - 1, rel_y \div cell_h)),
          Max(0, Min(c.cols - 1, rel_x \div cell_w))>>

on_click_cell_id_byrows(c, row, col) == row * c.rows + col

\* _on_click: cell_id of <<row, col>>
on_click_cell_id(c, row, col) == row * c.cols + col

(***************************************************************************)
(* The state each component has after construction, used by the            *)
(* specifications that do not run it.                                      *)
(***************************************************************************)
\* A raster (numpy array) is modelled by its shape and by whether it is
\* zero-filled; None by the raster of shape <<>>.
NoRaster == [shape |-> <<>>, zero |-> FALSE]

\* op: "none", "reset", "step", or "reset_raised"/"step_raised" when the call
\* raised instead of returning.  obs, reward, terminated, truncated and
\* turn/actions/score (info) are what the call returned; the other fields are
\* history: the action passed, whether its input injection failed, whether
\* the observation's grab and the reward's grab gave a frame, the score
\* extracted and whether the OCR text was empty or non-numeric.
NoRet == [op |-> "none", action |-> 0, obs |-> NoRaster, reward |-> 0,
          terminated |-> FALSE, truncated |-> FALSE, turn |-> 0, actions |-> 0,
          score |-> 0, inj_failed |-> FALSE, obs_grabbed |-> FALSE,
          grabbed |-> FALSE, extracted |-> 0, ocr_failed |-> FALSE]

EpisodeState(ps, tc, ac) == [prev_score |-> ps, turn_count |-> tc, action_count |-> ac]

\* CombatMissionEnv.__init__: state tracking
EnvConstructed ==
    /\ prev_score = 0
    /\ turn_count = 0
    /\ action_count = 0
    /\ ret = NoRet
    /\ before = EpisodeState(0, 0, 0)
    /\ events = <<>>
    /\ since_reset = [steps |-> 0, reward_sum |-> 0]

\* a handler's locals: the event's payload, frame_file, and the value of
\* self.frame_count loaded by "self.frame_count += 1"; seq (history) is the
\* event's position among the events taken for recording, in delivery order
NoLocals == [x |-> 0, y |-> 0, key |-> "", frame |-> <<>>, tmp |-> 0, seq |-> 0]

\* history: pointer presses delivered inside the WindowRegion while running;
\* presses of recordable keys delivered while running; whether the stop key
\* was pressed and self.records at that moment; the KeyboardInterrupts
\* raised in the control thread; the modifier key the session's user uses;
\* whether a press outside the WindowRegion was delivered while running
NoHist == [presses_in |-> 0, key_recs |-> 0, stopped |-> FALSE, at_stop |-> <<>>,
           interrupts |-> 0, mod_key |-> "shift", discarded |-> FALSE]

\* GameplayRecorder.__init__
RecConstructed ==
    /\ running = FALSE
    /\ stop_requested = FALSE
    /\ records = <<>>
    /\ frame_count = 0
    /\ held = [shift |-> FALSE, ctrl |-> FALSE, alt |-> FALSE]
    /\ files = {}
    /\ saves = 0
    /\ log = <<>>
    /\ flushes = 0
    /\ listening = [mouse |-> FALSE, keyboard |-> FALSE]
    /\ mainpc = "start"
    /\ mpc = "idle" /\ mloc = NoLocals
    /\ kpc = "idle" /\ kloc = NoLocals
    /\ hist = NoHist

(***************************************************************************)
(* SpecGrid: the grid arithmetic applied to drawn configurations and       *)
(* inputs; each behaviour draws a configuration and applies one operation. *)
(***************************************************************************)
Origins == {<<0, 0>>, <<2, 1>>}

GridConfigs ==
    { c \in { MkConfig(o[1], o[2], w, h, r, k, mt, mb, ml, mr) :
                o \in Origins, w \in 1..MaxDim, h \in 1..MaxDim,
                r \in 1..MaxGrid, k \in 1..MaxGrid,
                mt \in 0..MaxMargin, mb \in 0..MaxMargin,
                ml \in 0..MaxMargin, mr \in 0..MaxMargin } : ValidConfig(c) }

NoGres == [op |-> "none", row |-> 0, col |-> 0, idx |-> 0, x |-> 0, y |-> 0,
           row2 |-> 0, col2 |-> 0, cell_id |-> 0]

GridInit ==
    /\ cfg \in GridConfigs
    /\ gres = NoGres
    /\ ocr = FALSE /\ use_small_obs = TRUE /\ EnvConstructed
    /\ capture_on_click = TRUE /\ RecConstructed

\* grid_to_screen(row, col), then the recorder's conversion of that point
ApplyRoundTrip(row, col) ==
    LET xy == grid_to_screen(cfg, row, col)
        rc == on_click_cell(cfg, xy[1], xy[2])
    IN  /\ gres.op = "none"
        /\ gres' = [op |-> "round_trip", row |-> row, col |-> col,
                    idx |-> on_click_cell_id(cfg, row, col),
                    x |-> xy[1], y |-> xy[2], row2 |-> rc[1], col2 |-> rc[2],
                    cell_id |-> on_click_cell_id(cfg, rc[1], rc[2])]
        /\ UNCHANGED <<cfg, envVars, recVars>>

\* click_grid(idx): the decomposition, the click point, and the recorder's
\* cell_id of the decomposed <<row, col>>
ApplyClickGrid(idx) ==
    LET rc == click_grid_cell(cfg, idx)
        ck == click_grid(cfg, idx)
    IN  /\ gres.op = "none"
        /\ gres' = [op |-> "click_grid", row |-> rc[1], col |-> rc[2], idx |-> idx,
                    x |-> ck.x, y |-> ck.y, row2 |-> rc[1], col2 |-> rc[2],
                    cell_id |-> on_click_cell_id(cfg, rc[1], rc[2])]
        /\ UNCHANGED <<cfg, envVars, recVars>>

\* the recorder's cell_id of <<row, col>>, then click_grid's decomposition of it
ApplyCellId(row, col) ==
    LET id == on_click_cell_id(cfg, row, col)
        rc == click_grid_cell(cfg, id)
    IN  /\ gres.op = "none"
        /\ gres' = [op |-> "cell_id", row |-> row, col |-> col, idx |-> id,
                    x |-> 0, y |-> 0, row2 |-> rc[1], col2 |-> rc[2], cell_id |-> id]
        /\ UNCHANGED <<cfg, envVars, recVars>>

GridNext ==
    \/ \E row \in 0..(cfg.rows - 1), col \in 0..(cfg.cols - 1) : ApplyRoundTrip(row, col)
    \/ \E idx \in 0..(cfg.rows * cfg.cols - 1) : ApplyClickGrid(idx)
    \/ \E row \in 0..(cfg.rows - 1), col \in 0..(cfg.cols - 1) : ApplyCellId(row, col)

SpecGrid == GridInit /\ [][GridNext]_vars

(***************************************************************************)
(* C7: for every cell <<row, col>> of the grid, the recorder's conversion  *)
(* of the point grid_to_screen(row, col) gives back <<row, col>>, for      *)
(* every window and grid configuration with positive cell dimensions.      *)
(***************************************************************************)
C7_RoundTrip ==
    gres.op = "round_trip" =>
        /\ gres.row2 = gres.row
        /\ gres.col2 = gres.col

\* a round trip of an inner cell of a grid with margins and cells wider than 1
C7_Witness ==
    /\ gres.op = "round_trip"
    /\ gres.row = 1 /\ gres.col = 1
    /\ cfg.rows = 3 /\ cfg.cols = 3
    /\ cfg.margin_left = 1 /\ cfg.margin_top = 1
    /\ gres.row2 = 1 /\ gres.col2 = 1

(***************************************************************************)
(* C8: for every flat index idx in [0, rows*cols), click_grid's            *)
(* <<row, col>> = <<idx // cols, idx % cols>> satisfies                    *)
(* row*cols + col = idx with 0 <= row < rows and 0 <= col < cols, and the  *)
(* recorder's cell_id = row*cols + col inverts the decomposition (first    *)
(* decomposing and then composing gives idx; first composing and then      *)
(* decomposing gives <<row, col>>).                                        *)
(***************************************************************************)
C8_FlatIndex ==
    /\ gres.op = "click_grid" =>
          /\ gres.row * cfg.cols + gres.col = gres.idx
          /\ 0 <= gres.row /\ gres.row < cfg.rows
          /\ 0 <= gres.col /\ gres.col < cfg.cols
          /\ gres.cell_id = gres.idx
    /\ gres.op = "cell_id" =>
          /\ gres.row2 = gres.row
          /\ gres.col2 = gres.col
          /\ 0 <= gres.idx /\ gres.idx < cfg.rows * cfg.cols

\* the last index of a 2 x 3 grid, decomposed to <<1, 2>>
C8_Witness ==
    /\ gres.op = "click_grid"
    /\ cfg.rows = 2 /\ cfg.cols = 3
    /\ gres.idx = 5 /\ gres.row = 1 /\ gres.col = 2
    /\ gres.cell_id = 5

(***************************************************************************)
(* interface/ocr.py                                                        *)
(***************************************************************************)
Digits == {"0", "1", "2", "3", "4", "5", "6", "7", "8", "9"}

DigitVal(ch) ==
    CASE ch = "0" -> 0 [] ch = "1" -> 1 [] ch = "2" -> 2 [] ch = "3" -> 3
      [] ch = "4" -> 4 [] ch = "5" -> 5 [] ch = "6" -> 6 [] ch = "7" -> 7
      [] ch = "8" -> 8 [] ch = "9" -> 9

RECURSIVE IntOf(_)
IntOf(t) ==
    IF t = <<>> THEN 0
    ELSE 10 * IntOf(SubSeq(t, 1, Len(t) - 1)) + DigitVal(t[Len(t)])

\* OCRReader.extract_score on the (stripped) text read from the score region:
\* int(text) if text else 0, and 0 on ValueError
extract_score(text) ==
    IF text = <<>> THEN 0
    ELSE IF \A i \in 1..Len(text) : text[i] \in Digits THEN IntOf(text)
    ELSE 0

(***************************************************************************)
(* interface/screen.py                                                     *)
(***************************************************************************)
\* grab(): a BGR frame of the configured region, or None when the capture
\* failed (ok = FALSE)
grab(c, ok) ==
    IF ok THEN [shape |-> <<c.height, c.width, 3>>, zero |-> FALSE] ELSE NoRaster

\* one call of grab(), where outcomes[i] tells whether an i-th capture
\* attempt on the bound strategy would give a frame: the strategy is called
\* once, its failure is caught inside it and None is returned
grab_call(c, outcomes) ==
    [out |-> grab(c, outcomes[1]), attempts |-> 1, raised |-> FALSE]

\* np.zeros(shape, dtype=np.uint8)
np_zeros(shape) == [shape |-> shape, zero |-> TRUE]

\* cv2.cvtColor(frame, cv2.COLOR_BGR2GRAY): H x W x 3 to H x W
cvtColor_gray(r) == [r EXCEPT !.shape = <<@[1], @[2]>>]

\* a[..., np.newaxis]
newaxis(r) == [r EXCEPT !.shape = Append(@, 1)]

\* cv2.resize(src, (width, height)): a single-channel H x W x 1 source comes
\* back two-dimensional, height x width
cv2_resize(r, width, height) ==
    [r EXCEPT !.shape = IF Len(@) = 3 /\ @[3] > 1 THEN <<height, width, @[3]>>
                        ELSE <<height, width>>]

grab_grayscale_null(c, ok) ==
    LET frame == grab(c, ok)
    IN  IF frame = NoRaster THEN NoRaster ELSE newaxis(cvtColor_gray(frame))

\* grab_grayscale()
grab_grayscale(c, ok) ==
    LET frame == grab(c, ok)
    IN  IF frame = NoRaster THEN np_zeros(<<c.height, c.width, 1>>)
        ELSE newaxis(cvtColor_gray(frame))

\* grab_resized(width, height)
grab_resized(c, ok, width, height) ==
    newaxis(cv2_resize(grab_grayscale(c, ok), width, height))

(***************************************************************************)
(* env/combat_mission_env.py                                               *)
(***************************************************************************)
\* __init__: obs_shape, the shape of self.observation_space
obs_shape(c, small) == IF small THEN <<90, 160, 1>> ELSE <<c.height, c.width, 1>>

\* _get_observation()
get_observation(c, small, ok) ==
    IF small THEN grab_resized(c, ok, 160, 90) ELSE grab_grayscale(c, ok)

\* __init__: self.max_turns
max_turns == 50

grid_size(c) == c.rows * c.cols

action_space_n_off(c) == grid_size(c) + 4

\* __init__: spaces.Discrete(self.grid_size + 5)
action_space_n(c) == grid_size(c) + 5

\* an event of a call that is not an input command
Ev(what) == [cmd |-> what, x |-> 0, y |-> 0, button |-> "", key |-> ""]

step_dispatch_swapped(c, action) ==
    IF action < grid_size(c) THEN <<click_grid(c, action)>>
    ELSE IF action = grid_size(c) THEN <<press_key(HK_cycle_unit)>>
    ELSE IF action = grid_size(c) + 1 THEN <<press_key(HK_move_quick)>>
    ELSE IF action = grid_size(c) + 2 THEN <<press_key(HK_move_fast)>>
    ELSE IF action = grid_size(c) + 3 THEN <<press_key(HK_target)>>
    ELSE IF action = grid_size(c) + 4
         THEN <<press_key(HK_end_turn), Ev("replay_wait"), Ev("turn_count")>>
    ELSE <<>>

step_dispatch_count_first(c, action) ==
    IF action < grid_size(c) THEN <<click_grid(c, action)>>
    ELSE IF action = grid_size(c) THEN <<press_key(HK_cycle_unit)>>
    ELSE IF action = grid_size(c) + 1 THEN <<press_key(HK_move_fast)>>
    ELSE IF action = grid_size(c) + 2 THEN <<press_key(HK_move_quick)>>
    ELSE IF action = grid_size(c) + 3 THEN <<press_key(HK_target)>>
    ELSE IF action = grid_size(c) + 4
         THEN <<press_key(HK_end_turn), Ev("turn_count"), Ev("replay_wait")>>
    ELSE <<>>

\* step: "Execute action", the if/elif chain, as the events it causes in order
step_dispatch(c, action) ==
    IF action < grid_size(c) THEN <<click_grid(c, action)>>
    ELSE IF action = grid_size(c) THEN <<press_key(HK_cycle_unit)>>
    ELSE IF action = grid_size(c) + 1 THEN <<press_key(HK_move_fast)>>
    ELSE IF action = grid_size(c) + 2 THEN <<press_key(HK_move_quick)>>
    ELSE IF action = grid_size(c) + 3 THEN <<press_key(HK_target)>>
    ELSE IF action = grid_size(c) + 4
         THEN <<press_key(HK_end_turn), Ev("replay_wait"), Ev("turn_count")>>
    ELSE <<>>

step_turn_count_capped(c, tc, action) ==
    IF action = grid_size(c) + 4 /\ tc < max_turns THEN tc + 1 ELSE tc

step_turn_count_from_target(c, tc, action) ==
    IF action >= grid_size(c) + 3 THEN tc + 1 ELSE tc

step_turn_count_or_beyond(c, tc, action) ==
    IF action >= grid_size(c) + 4 THEN tc + 1 ELSE tc

\* step: self.turn_count after the if/elif chain
step_turn_count(c, tc, action) ==
    IF action = grid_size(c) + 4 THEN tc + 1 ELSE tc

is_truncated_only_at_cap(tc) == tc = max_turns

\* step: truncated = self.turn_count >= self.max_turns
is_truncated(tc) == tc >= max_turns

calculate_reward_keep_prev(o, grabbed, current_score, prev) ==
    IF ~o THEN [reward |-> 0, prev_score |-> prev]
    ELSE IF ~grabbed THEN [reward |-> 0, prev_score |-> prev]
    ELSE [reward |-> current_score - prev, prev_score |-> prev]

calculate_reward_forget_on_fail(o, grabbed, current_score, prev) ==
    IF ~o THEN [reward |-> 0, prev_score |-> prev]
    ELSE IF ~grabbed THEN [reward |-> 0, prev_score |-> 0]
    ELSE [reward |-> current_score - prev, prev_score |-> current_score]

\* _calculate_reward: the reward returned and the new self.prev_score
calculate_reward(o, grabbed, current_score, prev) ==
    IF ~o THEN [reward |-> 0, prev_score |-> prev]
    ELSE IF ~grabbed THEN [reward |-> 0, prev_score |-> prev]
    ELSE [reward |-> current_score - prev, prev_score |-> current_score]

reset_state_keep_actions(ps, tc, ac) == EpisodeState(0, 0, ac)

\* reset: the three assignments
reset_state(ps, tc, ac) == EpisodeState(0, 0, 0)

\* step: the if/elif chain calls self.input, and the call fails (pynput
\* raises) when inj = FALSE
injection_fails(c, action, inj) == ~inj /\ action < grid_size(c) + 5

input_raises_masked(c, action, inj) == FALSE

\* step: the exception of a failed self.input call leaves step; nothing in
\* step or in InputController catches it
input_raises(c, action, inj) == injection_fails(c, action, inj)

\* reset(): zero the episode state, set the camera, observe.  inj = FALSE:
\* set_camera_top_down raises; og: the observation's grab gives a frame.
Reset(og, inj) ==
    LET st == reset_state(prev_score, turn_count, action_count)
    IN  /\ before' = EpisodeState(prev_score, turn_count, action_count)
        /\ prev_score' = st.prev_score
        /\ turn_count' = st.turn_count
        /\ action_count' = st.action_count
        /\ since_reset' = [steps |-> 0, reward_sum |-> 0]
        /\ IF ~inj
           THEN /\ events' = <<Ev("raise")>>
                /\ ret' = [NoRet EXCEPT !.op = "reset_raised"]
           ELSE /\ events' = <<press_key(HK_camera_top_down), Ev("sleep"),
                                Ev("observe")>>
                /\ ret' = [NoRet EXCEPT !.op = "reset", !.obs_grabbed = og,
                              !.obs = get_observation(cfg, use_small_obs, og)]
        /\ UNCHANGED <<cfg, gres, ocr, use_small_obs, recVars>>

\* What screen.grab() gives _calculate_reward: None, or a frame whose score
\* region OCR reads as `text`.
NoFrame == [grabbed |-> FALSE, text |-> <<>>]
Frame(t) == [grabbed |-> TRUE, text |-> t]

\* extract_score: "int(text) if text else 0" fell back to 0
ocr_text_fails(text) == text = <<>> \/ \E i \in 1..Len(text) : text[i] \notin Digits

\* step(action).  inj = FALSE: the input injection fails; og: the
\* observation's grab gives a frame; frame is consumed by _calculate_reward
\* when OCR is available.
Step(action, frame, og, inj) ==
    /\ action_count < MaxActions
    /\ before' = EpisodeState(prev_score, turn_count, action_count)
    /\ action_count' = action_count + 1
    /\ IF input_raises(cfg, action, inj)
       THEN /\ events' = <<Ev("raise")>>
            /\ ret' = [NoRet EXCEPT !.op = "step_raised", !.action = action,
                                     !.inj_failed = TRUE]
            /\ since_reset' = [since_reset EXCEPT !.steps = @ + 1]
            /\ UNCHANGED <<turn_count, prev_score>>
       ELSE LET tc == step_turn_count(cfg, turn_count, action)
                g  == ocr /\ frame.grabbed
                sc == IF g THEN extract_score(frame.text) ELSE 0
                r  == calculate_reward(ocr, frame.grabbed, sc, prev_score)
            IN  /\ turn_count' = tc
                /\ prev_score' = r.prev_score
                /\ since_reset' = [steps |-> since_reset.steps + 1,
                                   reward_sum |-> since_reset.reward_sum + r.reward]
                /\ events' = step_dispatch(cfg, action)
                               \o <<Ev("sleep"), Ev("observe"), Ev("reward")>>
                /\ ret' = [op |-> "step", action |-> action,
                           obs |-> get_observation(cfg, use_small_obs, og),
                           reward |-> r.reward,
                           terminated |-> FALSE, truncated |-> is_truncated(tc),
                           turn |-> tc, actions |-> action_count + 1,
                           score |-> r.prev_score,
                           inj_failed |-> injection_fails(cfg, action, inj),
                           obs_grabbed |-> og,
                           grabbed |-> g, extracted |-> sc,
                           ocr_failed |-> g /\ ocr_text_fails(frame.text)]
    /\ action_count' - turn_count' <= MaxCommands
    /\ UNCHANGED <<cfg, gres, ocr, use_small_obs, recVars>>

EnvConfigs == { MkConfig(2, 1, 7, 4, 1, 2, 1, 1, 1, 1) }

OcrTexts == { <<>>, <<"1", "x">>, <<"1">>, <<"0", "2">> }

\* without OCR the reward computation grabs no frame
Frames == IF ocr THEN {NoFrame} \cup { Frame(t) : t \in OcrTexts } ELSE {NoFrame}

EnvInit ==
    /\ cfg \in EnvConfigs
    /\ ocr \in BOOLEAN
    /\ use_small_obs = TRUE
    /\ EnvConstructed
    /\ gres = NoGres
    /\ capture_on_click = TRUE /\ RecConstructed

\* the observation's grab gives a frame; a call whose input injection fails
\* grabs none
EnvNext ==
    \/ Reset(TRUE, TRUE)
    \/ Reset(FALSE, FALSE)
    \/ \E action \in 0..action_space_n(cfg), frame \in Frames :
          Step(action, frame, TRUE, TRUE)
    \/ \E action \in 0..action_space_n(cfg) : Step(action, NoFrame, FALSE, FALSE)

SpecEnv == EnvInit /\ [][EnvNext]_vars

\* the input commands among the events of the last call
InputCommands == SelectSeq(events, LAMBDA e : e.cmd \in {"click", "key"})

EndTurn == grid_size(cfg) + 4

(***************************************************************************)
(* C1: every step(a) with a = rows*cols + 4 (end-turn) that returns        *)
(* increases turn_count by exactly 1, whatever the episode state before    *)
(* the call, also when the episode was already truncated.                  *)
(***************************************************************************)
C1_EndTurnIncrements ==
    (ret.op = "step" /\ ret.action = EndTurn) =>
        /\ turn_count = before.turn_count + 1
        /\ ret.turn = before.turn_count + 1

\* an end-turn step taken when turn_count had already reached the cap
C1_Witness ==
    /\ ret.op = "step" /\ ret.action = EndTurn
    /\ before.turn_count = max_turns
    /\ turn_count = max_turns + 1

(***************************************************************************)
(* C2: for every valid action a in [0, rows*cols + 4) (grid click,         *)
(* cycle-unit, move-fast, move-quick, target), step(a) leaves turn_count   *)
(* unchanged.                                                              *)
(***************************************************************************)
C2_OtherActionsKeepTurn ==
    (ret.op = "step" /\ 0 <= ret.action /\ ret.action < EndTurn) =>
        turn_count = before.turn_count

\* a target step in the middle of an episode
C2_Witness ==
    /\ ret.op = "step" /\ ret.action = grid_size(cfg) + 3
    /\ before.turn_count = 2 /\ turn_count = 2
    /\ before.action_count = 4

(***************************************************************************)
(* C3: after reset() returns, turn_count = 0, action_count = 0 and         *)
(* prev_score = 0, whatever the episode state before the call.             *)
(***************************************************************************)
C3_ResetZeroes ==
    ret.op = "reset" =>
        /\ turn_count = 0
        /\ action_count = 0
        /\ prev_score = 0

\* a reset of a truncated episode with a non-zero score
C3_Witness ==
    /\ ret.op = "reset"
    /\ before.turn_count >= max_turns
    /\ before.action_count > before.turn_count
    /\ before.prev_score = 2
    /\ turn_count = 0 /\ action_count = 0 /\ prev_score = 0

(***************************************************************************)
(* C4: in the steps after a reset, the truncated flag step returns is      *)
(* false while turn_count is below max_turns = 50, is true on the step at  *)
(* which turn_count first reaches 50, and is true on every later step      *)
(* until the next reset().                                                 *)
(***************************************************************************)
C4_Truncated ==
    /\ [](ret.op = "step" => (ret.truncated <=> turn_count >= max_turns))
    /\ [][(turn_count < max_turns /\ turn_count' = max_turns) => ret'.truncated]_vars
    /\ [][(ret.op = "step" /\ ret.truncated /\ ret'.op = "step") => ret'.truncated]_vars

\* a step after the cap was passed, still truncated
C4_Witness ==
    /\ ret.op = "step" /\ ret.truncated
    /\ before.turn_count = max_turns /\ turn_count = max_turns + 1

(***************************************************************************)
(* C5 as stated: with OCR available every step extracts a score, returns   *)
(* it minus the prev_score before the step as the reward and stores it as  *)
(* prev_score; with OCR unavailable the reward is 0.                       *)
(***************************************************************************)
C5_AsStated ==
    ret.op = "step" =>
        IF ocr
        THEN /\ ret.grabbed
             /\ ret.reward = ret.extracted - before.prev_score
             /\ prev_score = ret.extracted
        ELSE ret.reward = 0

(***************************************************************************)
(* C5 amended: when OCR is available and the frame grab of the reward      *)
(* computation succeeds, the reward is the extracted score minus the       *)
(* prev_score before the step and prev_score becomes the extracted score;  *)
(* when OCR is unavailable or that grab fails, the reward is 0 and         *)
(* prev_score is unchanged.  info.score is the new prev_score.             *)
(***************************************************************************)
C5_Reward ==
    ret.op = "step" =>
        /\ IF ocr /\ ret.grabbed
           THEN /\ ret.reward = ret.extracted - before.prev_score
                /\ prev_score = ret.extracted
           ELSE /\ ret.reward = 0
                /\ prev_score = before.prev_score
        /\ ret.score = prev_score

\* a step that lowers the score from 2 to 1, and so returns -1
C5_Witness ==
    /\ ret.op = "step" /\ ocr /\ ret.grabbed
    /\ before.prev_score = 2 /\ ret.extracted = 1
    /\ ret.reward = -1 /\ prev_score = 1

(***************************************************************************)
(* C6: the action space has exactly rows*cols + 5 actions, and step        *)
(* issues exactly one input command for each valid action: a click inside  *)
(* grid cell a for a < rows*cols, then cycle-unit, move-fast, move-quick,  *)
(* target and end-turn for the next five, in that order.                   *)
(***************************************************************************)
InCell(c, idx, x, y) ==
    LET row == idx \div c.cols
        col == idx % c.cols
        x0  == c.left + c.margin_left + col * cell_width(c)
        y0  == c.top + c.margin_top + row * cell_height(c)
    IN  /\ x0 <= x /\ x < x0 + cell_width(c)
        /\ y0 <= y /\ y < y0 + cell_height(c)

C6_Dispatch ==
    /\ action_space_n(cfg) = cfg.rows * cfg.cols + 5
    /\ (ret.op = "step" /\ ret.action \in 0..(cfg.rows * cfg.cols + 4)) =>
          /\ Len(InputCommands) = 1
          /\ LET e == InputCommands[1]
                 n == cfg.rows * cfg.cols
             IN  /\ ret.action < n =>
                       e.cmd = "click" /\ InCell(cfg, ret.action, e.x, e.y)
                 /\ ret.action = n     => e.cmd = "key" /\ e.key = HK_cycle_unit
                 /\ ret.action = n + 1 => e.cmd = "key" /\ e.key = HK_move_fast
                 /\ ret.action = n + 2 => e.cmd = "key" /\ e.key = HK_move_quick
                 /\ ret.action = n + 3 => e.cmd = "key" /\ e.key = HK_target
                 /\ ret.action = n + 4 => e.cmd = "key" /\ e.key = HK_end_turn

\* a click on the second cell of the 1 x 2 grid
C6_Witness ==
    /\ ret.op = "step" /\ cfg.rows = 1 /\ cfg.cols = 2 /\ ret.action = 1
    /\ Len(InputCommands) = 1
    /\ InputCommands[1].cmd = "click"
    /\ InputCommands[1].x = 6 /\ InputCommands[1].y = 3

(***************************************************************************)
(* training/recorder.py : GameplayRecorder                                 *)
(*                                                                         *)
(* A frame file name f"frame_{n:05d}.npy" is modelled as <<n>> and the     *)
(* empty name "" as <<>>; frame_num is <<k>> for the integer k and <<>>    *)
(* for None.                                                               *)
(***************************************************************************)
SpecialKey(n) == [special |-> TRUE, name |-> n]     \* keyboard.Key.<n>
CharKey(ch)   == [special |-> FALSE, name |-> ch]   \* a KeyCode with .char

STOP_KEY == SpecialKey("f12")

is_ctrl_no_left(key) == key.special /\ key.name \in {"ctrl", "ctrl_r"}

is_shift(key) == key.special /\ key.name \in {"shift", "shift_l", "shift_r"}
is_ctrl(key)  == key.special /\ key.name \in {"ctrl", "ctrl_l", "ctrl_r"}
is_alt(key)   == key.special /\ key.name \in {"alt", "alt_l", "alt_r"}

\* _on_key_press: key.char, or str(key) without its "Key." prefix
key_name(key) == key.name

\* the point of the WindowRegion: left <= x < left + width, top <= y < top + height
InWindowRegion(c, x, y) ==
    /\ x \in c.left..(c.left + c.width - 1)
    /\ y \in c.top..(c.top + c.height - 1)

\* _on_click: the record appended
click_record(c, x, y, frame_file, fc, h) ==
    LET rc == on_click_cell(c, x, y)
    IN  [frame |-> frame_file, frame_num |-> <<fc - 1>>, action_type |-> "click",
         x |-> x, y |-> y, grid_cell |-> on_click_cell_id(c, rc[1], rc[2]),
         grid_row |-> rc[1], grid_col |-> rc[2], button |-> "Button.left",
         modifiers |-> h]

\* _on_key_press: the record appended
key_record(name, frame_file, fc, h) ==
    [frame |-> frame_file,
     frame_num |-> IF frame_file # <<>> THEN <<fc - 1>> ELSE <<>>,
     action_type |-> "keypress", key |-> name, modifiers |-> h]

\* events taken for recording so far: recorded, or in a handler
Pending ==
    Len(records) + (IF mpc # "idle" THEN 1 ELSE 0) + (IF kpc # "idle" THEN 1 ELSE 0)

\* ---- control thread: start() and _save_and_cleanup()

\* start(): set the flags, create and start both listeners
RecStart ==
    /\ mainpc = "start"
    /\ running' = TRUE
    /\ stop_requested' = FALSE
    /\ listening' = [mouse |-> TRUE, keyboard |-> TRUE]
    /\ mainpc' = "loop"
    /\ UNCHANGED <<cfg, gres, envVars, capture_on_click, records, frame_count, held,
                   files, saves, log, flushes, mpc, mloc, kpc, kloc, hist>>

\* start(): "while not self.stop_requested" found false
LoopExit ==
    /\ mainpc = "loop"
    /\ stop_requested
    /\ mainpc' = "cleanup"
    /\ UNCHANGED <<cfg, gres, envVars, capture_on_click, running, stop_requested,
                   records, frame_count, held, files, saves, log, flushes, listening,
                   mpc, mloc, kpc, kloc, hist>>

\* KeyboardInterrupt in the control thread: caught in the wait loop (the
\* finally clause then runs), propagated out of start() when raised within
\* the finally clause
Interrupt ==
    /\ mainpc \in {"loop", "cleanup", "dump"}
    /\ mainpc' = IF mainpc = "loop" THEN "cleanup" ELSE "aborted"
    /\ hist' = [hist EXCEPT !.interrupts = @ + 1]
    /\ UNCHANGED <<cfg, gres, envVars, capture_on_click, running, stop_requested,
                   records, frame_count, held, files, saves, log, flushes, listening,
                   mpc, mloc, kpc, kloc>>

\* _save_and_cleanup: self.running = False, then stop() on both listeners
Cleanup ==
    /\ mainpc = "cleanup"
    /\ running' = FALSE
    /\ listening' = [mouse |-> FALSE, keyboard |-> FALSE]
    /\ mainpc' = "dump"
    /\ UNCHANGED <<cfg, gres, envVars, capture_on_click, stop_requested, records,
                   frame_count, held, files, saves, log, flushes,
                   mpc, mloc, kpc, kloc, hist>>

SaveLogDropLast ==
    /\ mainpc = "dump"
    /\ log' = SubSeq(records, 1, Len(records) - 1)
    /\ flushes' = flushes + 1
    /\ mainpc' = "done"
    /\ UNCHANGED <<cfg, gres, envVars, capture_on_click, running, stop_requested,
                   records, frame_count, held, files, saves, listening,
                   mpc, mloc, kpc, kloc, hist>>

\* _save_and_cleanup: json.dump(self.records) to actions.json; start() returns
SaveLog ==
    /\ mainpc = "dump"
    /\ log' = records
    /\ flushes' = flushes + 1
    /\ mainpc' = "done"
    /\ UNCHANGED <<cfg, gres, envVars, capture_on_click, running, stop_requested,
                   records, frame_count, held, files, saves, listening,
                   mpc, mloc, kpc, kloc, hist>>

\* ---- pointer listener thread: _on_click(x, y, button, pressed)

\* the event is delivered; the handler returns at once unless the press is
\* to be recorded
MClick(x, y, pressed) ==
    /\ listening.mouse
    /\ mpc = "idle"
    /\ LET taken == pressed /\ running /\ is_in_game_window(cfg, x, y)
           counted == pressed /\ running /\ InWindowRegion(cfg, x, y)
       IN  /\ taken => Pending < MaxRecords
           /\ mpc' = IF taken THEN "capture" ELSE "idle"
           /\ mloc' = IF taken THEN [NoLocals EXCEPT !.x = x, !.y = y, !.seq = Pending + 1]
                            ELSE mloc
           /\ hist' = [hist EXCEPT
                         !.presses_in = IF counted THEN @ + 1 ELSE @,
                         !.discarded = @ \/ (pressed /\ running
                                               /\ ~InWindowRegion(cfg, x, y))]
    /\ UNCHANGED <<cfg, gres, envVars, capture_on_click, running, stop_requested,
                   records, frame_count, held, files, saves, log, flushes, listening,
                   mainpc, kpc, kloc>>

\* _capture_frame: grab; when a frame came, save it under the current
\* frame_count.  ok = FALSE: grab returned None, or an exception was caught.
MCapture(ok) ==
    /\ mpc = "capture"
    /\ IF ok
       THEN /\ files' = files \cup {frame_count}
            /\ saves' = saves + 1
            /\ mloc' = [mloc EXCEPT !.frame = <<frame_count>>]
            /\ mpc' = "load"
       ELSE /\ mloc' = [mloc EXCEPT !.frame = <<>>]
            /\ mpc' = "append"
            /\ UNCHANGED <<files, saves>>
    /\ UNCHANGED <<cfg, gres, envVars, capture_on_click, running, stop_requested,
                   records, frame_count, held, log, flushes, listening,
                   mainpc, kpc, kloc, hist>>

\* _capture_frame: "self.frame_count += 1", the load
MLoad ==
    /\ mpc = "load"
    /\ mloc' = [mloc EXCEPT !.tmp = frame_count]
    /\ mpc' = "store"
    /\ UNCHANGED <<cfg, gres, envVars, capture_on_click, running, stop_requested,
                   records, frame_count, held, files, saves, log, flushes, listening,
                   mainpc, kpc, kloc, hist>>

\* _capture_frame: "self.frame_count += 1", the store
MStore ==
    /\ mpc = "store"
    /\ frame_count' = mloc.tmp + 1
    /\ mpc' = "append"
    /\ UNCHANGED <<cfg, gres, envVars, capture_on_click, running, stop_requested,
                   records, held, files, saves, log, flushes, listening,
                   mainpc, mloc, kpc, kloc, hist>>

\* _on_click: convert to a grid cell and append the record
MAppend ==
    /\ mpc = "append"
    /\ records' = Append(records, click_record(cfg, mloc.x, mloc.y, mloc.frame,
                                               frame_count, held))
    /\ mpc' = "idle"
    /\ mloc' = NoLocals
    /\ UNCHANGED <<cfg, gres, envVars, capture_on_click, running, stop_requested,
                   frame_count, held, files, saves, log, flushes, listening,
                   mainpc, kpc, kloc, hist>>

\* ---- keyboard listener thread: _on_key_press(key), _on_key_release(key)

\* the press is delivered.  The stop key sets stop_requested and, by
\* returning False, stops the keyboard listener; modifier keys set their
\* flag; any other key goes on to be recorded.
KPress(key) ==
    /\ listening.keyboard
    /\ kpc = "idle"
    /\ IF key = STOP_KEY
       THEN /\ stop_requested' = TRUE
            /\ listening' = [listening EXCEPT !.keyboard = FALSE]
            /\ hist' = [hist EXCEPT !.stopped = TRUE, !.at_stop = records]
            /\ UNCHANGED <<held, kpc, kloc>>
       ELSE IF ~running
       THEN UNCHANGED <<stop_requested, listening, held, kpc, kloc, hist>>
       ELSE IF is_shift(key)
       THEN /\ held' = [held EXCEPT !.shift = TRUE]
            /\ UNCHANGED <<stop_requested, listening, kpc, kloc, hist>>
       ELSE IF is_ctrl(key)
       THEN /\ held' = [held EXCEPT !.ctrl = TRUE]
            /\ UNCHANGED <<stop_requested, listening, kpc, kloc, hist>>
       ELSE IF is_alt(key)
       THEN /\ held' = [held EXCEPT !.alt = TRUE]
            /\ UNCHANGED <<stop_requested, listening, kpc, kloc, hist>>
       ELSE /\ Pending < MaxRecords
            /\ kloc' = [NoLocals EXCEPT !.key = key_name(key), !.seq = Pending + 1]
            /\ kpc' = IF capture_on_click THEN "append" ELSE "capture"
            /\ hist' = [hist EXCEPT !.key_recs = @ + 1]
            /\ UNCHANGED <<stop_requested, listening, held>>
    /\ UNCHANGED <<cfg, gres, envVars, capture_on_click, running, records, frame_count,
                   files, saves, log, flushes, mainpc, mpc, mloc>>

\* _capture_frame, called from _on_key_press when capture_on_click is False
KCapture(ok) ==
    /\ kpc = "capture"
    /\ IF ok
       THEN /\ files' = files \cup {frame_count}
            /\ saves' = saves + 1
            /\ kloc' = [kloc EXCEPT !.frame = <<frame_count>>]
            /\ kpc' = "load"
       ELSE /\ kloc' = [kloc EXCEPT !.frame = <<>>]
            /\ kpc' = "append"
            /\ UNCHANGED <<files, saves>>
    /\ UNCHANGED <<cfg, gres, envVars, capture_on_click, running, stop_requested,
                   records, frame_count, held, log, flushes, listening,
                   mainpc, mpc, mloc, hist>>

\* _capture_frame: "self.frame_count += 1", the load
KLoad ==
    /\ kpc = "load"
    /\ kloc' = [kloc EXCEPT !.tmp = frame_count]
    /\ kpc' = "store"
    /\ UNCHANGED <<cfg, gres, envVars, capture_on_click, running, stop_requested,
                   records, frame_count, held, files, saves, log, flushes, listening,
                   mainpc, mpc, mloc, hist>>

\* _capture_frame: "self.frame_count += 1", the store
KStore ==
    /\ kpc = "store"
    /\ frame_count' = kloc.tmp + 1
    /\ kpc' = "append"
    /\ UNCHANGED <<cfg, gres, envVars, capture_on_click, running, stop_requested,
                   records, held, files, saves, log, flushes, listening,
                   mainpc, mpc, mloc, kloc, hist>>

\* _on_key_press: append the record
KAppend ==
    /\ kpc = "append"
    /\ records' = Append(records, key_record(kloc.key, kloc.frame, frame_count, held))
    /\ kpc' = "idle"
    /\ kloc' = NoLocals
    /\ UNCHANGED <<cfg, gres, envVars, capture_on_click, running, stop_requested,
                   frame_count, held, files, saves, log, flushes, listening,
                   mainpc, mpc, mloc, hist>>

\* _on_key_release: a modifier key clears its flag
KRelease(key) ==
    /\ listening.keyboard
    /\ kpc = "idle"
    /\ held' = [shift |-> IF is_shift(key) THEN FALSE ELSE held.shift,
                ctrl  |-> IF is_ctrl(key) THEN FALSE ELSE held.ctrl,
                alt   |-> IF is_alt(key) THEN FALSE ELSE held.alt]
    /\ UNCHANGED <<cfg, gres, envVars, capture_on_click, running, stop_requested,
                   records, frame_count, files, saves, log, flushes, listening,
                   mainpc, mpc, mloc, kpc, kloc, hist>>

(***************************************************************************)
(* SpecRec: one recording session.                                         *)
(***************************************************************************)
\* window x in 1..4, y in 1..3; grid 2 x 2 of 1 x 1 cells at x in 2..3, y in 2..3
RecConfigs == { MkConfig(1, 1, 4, 3, 2, 2, 1, 0, 1, 0) }

\* pointer positions: left of the window, on its right and bottom bounds
\* (outside); in row 0, right of the last column of cells (inside)
ClickPoints == { <<0, 2>>, <<5, 2>>, <<3, 4>>, <<4, 2>> }

\* the modifier key of a session: one of the three families, in some variant
ModifierKeys == { "shift", "ctrl_l", "alt_r" }

\* a session that captures frames on keypresses is drawn with shift only
SessionModifierKeys == IF capture_on_click THEN ModifierKeys ELSE { "shift" }

\* the keys pressed and released in a session
Keys == { STOP_KEY, SpecialKey(hist.mod_key), CharKey("a") }

RecInit ==
    /\ cfg \in RecConfigs
    /\ capture_on_click \in BOOLEAN
    /\ running = FALSE
    /\ stop_requested = FALSE
    /\ records = <<>>
    /\ frame_count = 0
    /\ held = [shift |-> FALSE, ctrl |-> FALSE, alt |-> FALSE]
    /\ files = {}
    /\ saves = 0
    /\ log = <<>>
    /\ flushes = 0
    /\ listening = [mouse |-> FALSE, keyboard |-> FALSE]
    /\ mainpc = "start"
    /\ mpc = "idle" /\ mloc = NoLocals
    /\ kpc = "idle" /\ kloc = NoLocals
    /\ hist \in { [NoHist EXCEPT !.mod_key = k] : k \in SessionModifierKeys }
    /\ gres = NoGres
    /\ ocr = FALSE /\ use_small_obs = TRUE /\ EnvConstructed

RecNext ==
    \/ RecStart
    \/ LoopExit
    \/ Interrupt
    \/ Cleanup
    \/ SaveLog
    \/ \E p \in ClickPoints, pressed \in BOOLEAN : MClick(p[1], p[2], pressed)
    \/ \E ok \in BOOLEAN : MCapture(ok)
    \/ MLoad
    \/ MStore
    \/ MAppend
    \/ \E key \in Keys : KPress(key)
    \/ \E ok \in BOOLEAN : KCapture(ok)
    \/ KLoad
    \/ KStore
    \/ KAppend
    \/ \E key \in Keys : KRelease(key)

SpecRec == RecInit /\ [][RecNext]_vars

(***************************************************************************)
(* C9: while the recorder is running, a pointer press outside the          *)
(* WindowRegion appends no record and captures no frame (records,          *)
(* frame_count and the saved frame files are unchanged and the handler     *)
(* returns); a pointer press inside the WindowRegion appends exactly one   *)
(* click record, whose coordinates are those of the press and whose        *)
(* grid_cell is the clamped cell of that coordinate.                       *)
(***************************************************************************)
ClampTo(v, lo, hi) == IF v < lo THEN lo ELSE IF v > hi THEN hi ELSE v

\* the flat index of the grid cell nearest to the point <<x, y>>
ClampedCellId(c, x, y) ==
    LET row == ClampTo((y - c.top - c.margin_top) \div cell_height(c), 0, c.rows - 1)
        col == ClampTo((x - c.left - c.margin_left) \div cell_width(c), 0, c.cols - 1)
    IN  row * c.cols + col

ClickRecords == SelectSeq(records, LAMBDA r : r.action_type = "click")

C9_ClickRecording ==
    /\ [][\A p \in ClickPoints :
            (MClick(p[1], p[2], TRUE) /\ running /\ ~InWindowRegion(cfg, p[1], p[2]))
               => /\ records' = records
                  /\ frame_count' = frame_count
                  /\ files' = files /\ saves' = saves
                  /\ mpc' = "idle"]_vars
    /\ [][\A p \in ClickPoints :
            (MClick(p[1], p[2], TRUE) /\ running /\ InWindowRegion(cfg, p[1], p[2]))
               => /\ mpc' = "capture"
                  /\ mloc'.x = p[1] /\ mloc'.y = p[2]
                  /\ records' = records]_vars
    /\ [][(mpc # "idle" /\ mpc' # mpc)
               => IF mpc' = "idle"
                  THEN /\ Len(records') = Len(records) + 1
                       /\ SubSeq(records', 1, Len(records)) = records
                       /\ LET r == records'[Len(records')]
                          IN  /\ r.action_type = "click"
                              /\ r.x = mloc.x /\ r.y = mloc.y
                              /\ r.grid_cell = ClampedCellId(cfg, mloc.x, mloc.y)
                  ELSE records' = records]_vars
    /\ [](Len(ClickRecords) + (IF mpc # "idle" THEN 1 ELSE 0) = hist.presses_in)

\* a press outside the window was discarded, and a press right of the grid,
\* inside the window, was recorded in the nearest cell, <<0, 1>>
C9_Witness ==
    /\ hist.discarded
    /\ hist.presses_in = 1
    /\ mpc = "idle"
    /\ Len(records) = 1
    /\ records[1].action_type = "click"
    /\ records[1].x = 4 /\ records[1].y = 2
    /\ records[1].grid_cell = 1
    /\ saves <= 1

(***************************************************************************)
(* C10: pressing the stop key during an active recording session results   *)
(* in exactly one flushed actions log: the log is never written twice,     *)
(* and when start() returns after a stop key press the log has been        *)
(* written once and holds, in order, all the records collected up to the   *)
(* stop key press.                                                         *)
(***************************************************************************)
IsPrefix(a, b) == Len(a) <= Len(b) /\ SubSeq(b, 1, Len(a)) = a

C11_NoRecordAfterStop ==
    /\ [][\A p \in ClickPoints :
            (hist.stopped /\ MClick(p[1], p[2], TRUE)) => mpc' = "idle"]_vars
    /\ [][\A key \in Keys :
            (hist.stopped /\ KPress(key)) => kpc' = "idle"]_vars

\* the stop key was pressed with no record collected, and two pointer presses
\* have been appended since: at most one of them was in its handler when the
\* stop key was pressed, the other was delivered afterwards
C11_Witness ==
    /\ hist.stopped
    /\ hist.at_stop = <<>>
    /\ hist.presses_in = 2 /\ hist.key_recs = 0
    /\ mpc = "idle"
    /\ Len(records) = 2
    /\ records[1].action_type = "click" /\ records[2].action_type = "click"

(***************************************************************************)
(* C12: the action log is flushed exactly once per recording session even  *)
(* when a stop key press and a KeyboardInterrupt in the control thread     *)
(* both occur, in any order: the log is never written twice, and a session *)
(* that has ended after a stop key press and one interrupt was written     *)
(* once.                                                                   *)
(***************************************************************************)
C12_FlushOnce ==
    /\ flushes <= 1
    /\ (mainpc \in {"done", "aborted"} /\ hist.stopped /\ hist.interrupts = 1)
          => flushes = 1

\* the session ended after a stop key press that found one record and one
\* interrupt, raised after self.running was cleared, with no log
C12_Witness ==
    /\ mainpc = "aborted" /\ ~running
    /\ hist.stopped /\ hist.interrupts = 1
    /\ Len(hist.at_stop) = 1
    /\ flushes = 0 /\ log = <<>>
    /\ Len(records) = 1

(***************************************************************************)
(* SpecObs: the observation path.  A capture function is applied once to   *)
(* a drawn outcome of the underlying grab, and the environment is then     *)
(* run without OCR in either observation mode.                             *)
(***************************************************************************)
ObsConfigs == { MkConfig(2, 1, 7, 4, 1, 2, 1, 1, 1, 1),
                MkConfig(0, 0, 160, 90, 1, 1, 0, 0, 0, 0) }

\* the (width, height) passed to grab_resized
ObsSizes == { <<3, 2>>, <<160, 90>> }

ApplyGrab(outcomes) ==
    /\ gres.op = "none"
    /\ gres' = [op |-> "grab", outcomes |-> outcomes, call |-> grab_call(cfg, outcomes)]
    /\ UNCHANGED <<cfg, envVars, recVars>>

ApplyGrabGrayscale(ok) ==
    /\ gres.op = "none"
    /\ gres' = [op |-> "grab_grayscale", ok |-> ok, width |-> cfg.width,
                height |-> cfg.height, out |-> grab_grayscale(cfg, ok)]
    /\ UNCHANGED <<cfg, envVars, recVars>>

ApplyGrabResized(width, height, ok) ==
    /\ gres.op = "none"
    /\ gres' = [op |-> "grab_resized", ok |-> ok, width |-> width,
                height |-> height, out |-> grab_resized(cfg, ok, width, height)]
    /\ UNCHANGED <<cfg, envVars, recVars>>

ObsInit ==
    /\ cfg \in ObsConfigs
    /\ ocr = FALSE
    /\ use_small_obs \in BOOLEAN
    /\ EnvConstructed
    /\ gres = NoGres
    /\ capture_on_click = TRUE /\ RecConstructed

ObsNext ==
    \/ \E o1 \in BOOLEAN, o2 \in BOOLEAN : ApplyGrab(<<o1, o2>>)
    \/ \E ok \in BOOLEAN : ApplyGrabGrayscale(ok)
    \/ \E sz \in ObsSizes, ok \in BOOLEAN : ApplyGrabResized(sz[1], sz[2], ok)
    \/ \E og \in BOOLEAN : Reset(og, TRUE)
    \/ \E action \in 0..action_space_n(cfg), og \in BOOLEAN :
          Step(action, NoFrame, og, TRUE)

SpecObs == ObsInit /\ [][ObsNext]_vars

C14_RetryOnce ==
    gres.op = "grab" =>
        /\ ~gres.call.raised
        /\ gres.call.attempts = IF gres.outcomes[1] THEN 1 ELSE 2
        /\ gres.call.out = NoRaster <=> (~gres.outcomes[1] /\ ~gres.outcomes[2])

\* the first attempt failed, a second would have given a frame, and grab
\* returned None after one attempt
C14_Witness ==
    /\ gres.op = "grab"
    /\ gres.outcomes = <<FALSE, TRUE>>
    /\ gres.call = [out |-> NoRaster, attempts |-> 1, raised |-> FALSE]

(***************************************************************************)
(* C15: when OCR extraction fails on a step (the text read is empty or     *)
(* non-numeric, so that extract_score yields 0), the reward returned by    *)
(* that step is 0, whatever prev_score earlier steps have accumulated.     *)
(***************************************************************************)
C15_ExtractionFailureZero ==
    (ret.op = "step" /\ ret.ocr_failed) =>
        /\ ret.extracted = 0
        /\ ret.reward = 0

\* a step whose OCR text was unreadable, taken at prev_score = 2, returned
\* the reward -2 and left prev_score = 0
C15_Witness ==
    /\ ret.op = "step" /\ ret.ocr_failed
    /\ before.prev_score = 2
    /\ ret.extracted = 0 /\ ret.reward = -2 /\ prev_score = 0

(***************************************************************************)
(* C16: when the input injection of a step fails, the failure leaves step  *)
(* as an exception: step returns no (observation, reward, ...) tuple, no   *)
(* observation is captured and no reward computed (prev_score unchanged),  *)
(* and for an end-turn action neither the replay wait nor the increment    *)
(* of turn_count takes place.                                              *)
(***************************************************************************)
C16_InjectionFailurePropagates ==
    (ret.op \in {"step", "step_raised"} /\ ret.inj_failed) =>
        /\ ret = [NoRet EXCEPT !.op = "step_raised", !.action = ret.action,
                               !.inj_failed = TRUE]
        /\ turn_count = before.turn_count
        /\ prev_score = before.prev_score
        /\ \A i \in 1..Len(events) :
              events[i].cmd \notin {"replay_wait", "turn_count", "observe", "reward"}

\* an end-turn step whose key press failed, in the fourth turn
C16_Witness ==
    /\ ret.op = "step_raised" /\ ret.inj_failed /\ ret.action = EndTurn
    /\ before.turn_count = 3 /\ turn_count = 3
    /\ before.prev_score = 1 /\ prev_score = 1
    /\ action_count = before.action_count + 1
    /\ events = <<Ev("raise")>>

(***************************************************************************)
(* SpecCfg: start-up under any configuration, valid or not.  A component   *)
(* is constructed from the configuration and, when the constructor did not *)
(* raise, used once: the environment clicks a grid cell, the recorder      *)
(* handles a pointer press inside the window.                              *)
(***************************************************************************)
\* windows of up to 3 x 3 pixels at the origin, grids of 0..2 rows and
\* columns, top and left margins of 0 or 1
CfgConfigs ==
    { MkConfig(0, 0, w, h, r, c, mt, 0, ml, 0) :
        w \in 1..3, h \in 1..3, r \in 0..2, c \in 0..2, mt \in 0..1, ml \in 0..1 }

\* InputController.__init__: "// self.grid.cols" and "// self.grid.rows"
\* raise ZeroDivisionError; nothing else examines the configuration
input_init_raises(c) == c.cols = 0 \/ c.rows = 0

\* GameplayRecorder.__init__ and start() do not read CONFIG.grid
recorder_init_raises(c) == FALSE

\* _on_click: "// grid.cols", "// grid.rows", "rel_x // cell_w" and
\* "rel_y // cell_h" raise ZeroDivisionError
on_click_raises(c) ==
    c.cols = 0 \/ c.rows = 0 \/ cell_width(c) = 0 \/ cell_height(c) = 0

\* CombatMissionEnv.__init__, which constructs the InputController
ConstructEnv ==
    /\ gres.op = "none"
    /\ gres' = [op |-> "construct_env", raised |-> input_init_raises(cfg)]
    /\ UNCHANGED <<cfg, envVars, recVars>>

\* GameplayRecorder.__init__ and the start of start()
ConstructRecorder ==
    /\ gres.op = "none"
    /\ gres' = [op |-> "construct_recorder", raised |-> recorder_init_raises(cfg)]
    /\ UNCHANGED <<cfg, envVars, recVars>>

\* step(idx) of the constructed environment: click_grid(idx)
StepClick(idx) ==
    /\ gres.op = "construct_env" /\ ~gres.raised
    /\ gres' = [op |-> "step_click", raised |-> FALSE, out |-> click_grid(cfg, idx)]
    /\ UNCHANGED <<cfg, envVars, recVars>>

\* _on_click(x, y, button, True) of the started recorder, inside the window
OnClick(x, y) ==
    /\ gres.op = "construct_recorder" /\ ~gres.raised
    /\ is_in_game_window(cfg, x, y)
    /\ gres' = [op |-> "on_click", raised |-> on_click_raises(cfg), x |-> x, y |-> y,
                out |-> IF on_click_raises(cfg) THEN <<>>
                        ELSE on_click_cell(cfg, x, y)]
    /\ UNCHANGED <<cfg, envVars, recVars>>

CfgInit ==
    /\ cfg \in CfgConfigs
    /\ gres = NoGres
    /\ ocr = FALSE /\ use_small_obs = TRUE /\ EnvConstructed
    /\ capture_on_click = TRUE /\ RecConstructed

CfgNext ==
    \/ ConstructEnv
    \/ ConstructRecorder
    \/ \E idx \in 0..(grid_size(cfg) - 1) : StepClick(idx)
    \/ \E x \in 0..(cfg.width - 1), y \in 0..(cfg.height - 1) : OnClick(x, y)

SpecCfg == CfgInit /\ [][CfgNext]_vars

(***************************************************************************)
(* C17: a configuration that violates rows >= 1, cols >= 1 or positive     *)
(* cell width and height is rejected when the component is constructed     *)
(* (the constructor raises), and never fails later, in a step or inside a  *)
(* recorder event handler.                                                 *)
(***************************************************************************)
C17_RejectedAtStartup ==
    ~ValidConfig(cfg) =>
        /\ gres.op \in {"construct_env", "construct_recorder"} => gres.raised
        /\ gres.op \in {"step_click", "on_click"} => ~gres.raised

\* a 1 x 1 grid in a window whose left margin leaves no playable width: the
\* recorder started, and its handler raised on the first press in the window
C17_Witness ==
    /\ cfg.rows = 1 /\ cfg.cols = 1
    /\ cfg.width = 1 /\ cfg.margin_left = 1
    /\ gres.op = "on_click" /\ gres.raised


(***************************************************************************)
(* SpecExample: the configuration of the specification's worked example,   *)
(* on which the grid operations are applied and one step() is called.      *)
(***************************************************************************)
ExampleConfig == MkConfig(0, 0, 1000, 800, 10, 10, 0, 0, 0, 0)

ExampleInit ==
    /\ cfg = ExampleConfig
    /\ gres = NoGres
    /\ ocr = FALSE /\ use_small_obs = TRUE /\ EnvConstructed
    /\ capture_on_click = TRUE /\ RecConstructed

\* the first step() of an episode, for every action of the action space
FirstStep(action) ==
    /\ action_count = 0
    /\ Step(action, NoFrame, TRUE, TRUE)

ExampleNext ==
    \/ \E row \in 0..(cfg.rows - 1), col \in 0..(cfg.cols - 1) : ApplyRoundTrip(row, col)
    \/ \E idx \in 0..(cfg.rows * cfg.cols - 1) : ApplyClickGrid(idx)
    \/ \E action \in 0..(action_space_n(cfg) - 1) : FirstStep(action)

SpecExample == ExampleInit /\ [][ExampleNext]_vars

\* C18: with the window {left 0, top 0, width 1000, height 800} and a 10 x 10
\* grid without margins, grid_to_screen(0, 0) is (50, 40), grid_to_screen(9, 9)
\* is (950, 760), and the action that ends the turn is 104: it is the one
\* action whose step issues the end-turn shortcut and counts a turn.
C18_WorkedExample ==
    /\ (gres.op = "round_trip" /\ gres.row = 0 /\ gres.col = 0)
          => (gres.x = 50 /\ gres.y = 40)
    /\ (gres.op = "round_trip" /\ gres.row = 9 /\ gres.col = 9)
          => (gres.x = 950 /\ gres.y = 760)
    /\ (gres.op = "click_grid" /\ gres.idx = 0) => (gres.x = 50 /\ gres.y = 40)
    /\ (gres.op = "click_grid" /\ gres.idx = 99) => (gres.x = 950 /\ gres.y = 760)
    /\ ret.op = "step" =>
          /\ (ret.action = 104) <=> (events[1] = press_key(HK_end_turn))
          /\ (ret.action = 104) <=> (ret.turn = 1)

C18_Witness ==
    /\ cfg = ExampleConfig
    /\ gres.op = "round_trip" /\ gres.row = 9 /\ gres.col = 9
    /\ gres.x = 950 /\ gres.y = 760
    /\ ret.op = "step" /\ ret.action = 104 /\ ret.turn = 1
    /\ events[1] = press_key(HK_end_turn)


\* the position of the first event named what in the events of the last call,
\* 0 when there is none
EventPos(what) ==
    IF \E i \in 1..Len(events) : events[i].cmd = what
    THEN CHOOSE i \in 1..Len(events) :
            /\ events[i].cmd = what
            /\ \A j \in 1..(i - 1) : events[j].cmd # what
    ELSE 0

\* C19: in a step that ends the turn the end-turn shortcut is issued first,
\* then the replay wait elapses, then turn_count is incremented, then the
\* observation is captured and the reward computed; after the shortcut no
\* input command is issued before step returns.
C19_EndTurnOrder ==
    (ret.op = "step" /\ ret.action = grid_size(cfg) + 4) =>
        /\ events[1] = press_key(HK_end_turn)
        /\ 1 < EventPos("replay_wait")
        /\ EventPos("replay_wait") < EventPos("turn_count")
        /\ EventPos("turn_count") < EventPos("observe")
        /\ EventPos("observe") < EventPos("reward")
        /\ EventPos("reward") = Len(events)
        /\ \A i \in 2..Len(events) : events[i].cmd \notin {"click", "key"}
        /\ \A what \in {"replay_wait", "turn_count", "observe", "reward"} :
              Cardinality({ i \in 1..Len(events) : events[i].cmd = what }) = 1
        /\ ret.turn = before.turn_count + 1

\* the third turn of an episode is ended
C19_Witness ==
    /\ ret.op = "step" /\ ret.action = grid_size(cfg) + 4
    /\ before.turn_count = 2 /\ ret.turn = 3 /\ turn_count = 3
    /\ Len(events) = 6
    /\ events[1] = press_key(HK_end_turn)
    /\ events[2].cmd = "replay_wait" /\ events[3].cmd = "turn_count"


\* C20: with frame capture on keypresses enabled (capture_on_click False),
\* under every interleaving of the pointer handler and the keypress handler
\* each record with a non-empty frame reference has frame_num equal to the
\* sequence number in its own frame file name.
C20_FrameNumMatchesFile ==
    ~capture_on_click =>
        \A i \in 1..Len(records) :
            records[i].frame # <<>> => records[i].frame_num = records[i].frame

\* the pointer handler saved frame_00000.npy, the keypress handler saved
\* frame_00001.npy and incremented the counter to 2 before the pointer
\* handler appended its record, which carries frame_num 1
C20_Witness ==
    /\ ~capture_on_click
    /\ Len(records) = 2
    /\ records[1].action_type = "keypress"
    /\ records[1].frame = <<1>> /\ records[1].frame_num = <<1>>
    /\ records[2].action_type = "click"
    /\ records[2].frame = <<0>> /\ records[2].frame_num = <<1>>
    /\ files = {0, 1} /\ frame_count = 2


\* C21: the record sequence is in arrival order with one record per recorded
\* event: the events taken for recording are those recorded or still in a
\* handler, and no record of an event is in the sequence while an event
\* delivered before it is still in its handler (the k-th event delivered is
\* appended as the k-th record).
C21_ArrivalOrder ==
    /\ hist.presses_in + hist.key_recs = Pending
    /\ mpc # "idle" => mloc.seq > Len(records)
    /\ kpc # "idle" => kloc.seq > Len(records)

\* a pointer press was delivered first and a keypress second; the keypress
\* handler has appended its record while the pointer handler, about to
\* append, was capturing
C21_Witness ==
    /\ mpc = "append" /\ mloc.seq = 1
    /\ kpc = "idle"
    /\ Len(records) = 1
    /\ records[1].action_type = "keypress"
    /\ hist.presses_in = 1 /\ hist.key_recs = 1

\* the names of the modifier keys, and the held flag each belongs to
ShiftNames == {"shift", "shift_l", "shift_r"}
CtrlNames  == {"ctrl", "ctrl_l", "ctrl_r"}
AltNames   == {"alt", "alt_l", "alt_r"}

IsModifierKey(key) == key.special /\ key.name \in ShiftNames \cup CtrlNames \cup AltNames

HeldWith(key, v) ==
    [shift |-> IF key.name \in ShiftNames THEN v ELSE held.shift,
     ctrl  |-> IF key.name \in CtrlNames THEN v ELSE held.ctrl,
     alt   |-> IF key.name \in AltNames THEN v ELSE held.alt]

ClampNext ==
    \/ ConstructRecorder
    \/ \E x \in cfg.left..(cfg.left + cfg.width - 1),
          y \in cfg.top..(cfg.top + cfg.height - 1) : OnClick(x, y)

SpecClamp == GridInit /\ [][ClampNext]_vars

\* the index of the nearest of n cells of size cell that begin at origin
NearestIndex(v, origin, cell, n) ==
    IF v < origin THEN 0
    ELSE IF v >= origin + n * cell THEN n - 1
    ELSE CHOOSE k \in 0..(n - 1) : origin + k * cell <= v /\ v < origin + (k + 1) * cell

\* C23: for every pointer press inside the WindowRegion, margins included,
\* the handler does not fail, grid_row is in [0, rows), grid_col in [0, cols)
\* and grid_cell in [0, rows*cols); a coordinate outside the grid gives the
\* nearest edge cell, one inside the grid the cell that contains it.
C23_ClampedCell ==
    gres.op = "on_click" =>
        /\ ~gres.raised
        /\ gres.out[1] \in 0..(cfg.rows - 1)
        /\ gres.out[2] \in 0..(cfg.cols - 1)
        /\ on_click_cell_id(cfg, gres.out[1], gres.out[2]) \in 0..(cfg.rows * cfg.cols - 1)
        /\ gres.out[1] = NearestIndex(gres.y, cfg.top + cfg.margin_top,
                                      cell_height(cfg), cfg.rows)
        /\ gres.out[2] = NearestIndex(gres.x, cfg.left + cfg.margin_left,
                                      cell_width(cfg), cfg.cols)

\* a press in the top margin, right of the last column: row 0, column 1 of
\* a 2 x 2 grid
C23_Witness ==
    /\ gres.op = "on_click" /\ ~gres.raised
    /\ cfg = MkConfig(2, 1, 6, 4, 2, 2, 1, 1, 1, 0)
    /\ gres.x = 7 /\ gres.y = 1
    /\ gres.out = <<0, 1>>


\* C24: every record appended to the in-memory sequence is contained in
\* the flushed action log: once the log file has been written, the log equals
\* the sequence, whatever handler was in flight during save-and-cleanup.
C24_AllRecordsFlushed ==
    flushes >= 1 => log = records

\* a pointer press was in its handler when the stop key was pressed; the
\* log was written empty and start() returned, then the handler appended
C24_Witness ==
    /\ mainpc = "done" /\ flushes = 1
    /\ hist.stopped /\ hist.interrupts = 0
    /\ log = <<>>
    /\ Len(records) = 1 /\ records[1].action_type = "click"
    /\ mpc = "idle"


\* C25: frame files are numbered without gaps or reuse.  Whenever no
\* handler is in progress, frame_count is the number of frame files saved,
\* the files are exactly frame_00000 .. frame_(frame_count - 1), and no two
\* records reference the same frame file.
C25_FrameNumbering ==
    (mpc = "idle" /\ kpc = "idle") =>
        /\ frame_count = saves
        /\ files = 0..(frame_count - 1)
        /\ Cardinality(files) = saves
        /\ \A i, j \in 1..Len(records) :
              (i < j /\ records[i].frame # <<>>) => records[i].frame # records[j].frame

\* with capture on keypresses, both handlers saved their frame before either
\* incremented frame_count: frame_00000.npy was written twice and both records
\* reference it
C25_Witness ==
    /\ ~capture_on_click
    /\ mpc = "idle" /\ kpc = "idle"
    /\ saves = 2 /\ files = {0}
    /\ Len(records) = 2
    /\ records[1].frame = <<0>> /\ records[2].frame = <<0>>
    /\ records[1].action_type # records[2].action_type


(***************************************************************************)
(* SpecRecLive: SpecRec with a control thread that is scheduled fairly:    *)
(* the wait loop's test, _save_and_cleanup and the dump are each taken     *)
(* when they stay enabled.                                                 *)
(***************************************************************************)
RecFairness ==
    /\ WF_vars(LoopExit)
    /\ WF_vars(Cleanup)
    /\ WF_vars(SaveLog)

SpecRecLive == RecInit /\ [][RecNext]_vars /\ RecFairness

\* start() is between its first statement and its return
StartRunning == mainpc \in {"loop", "cleanup", "dump"}

\* C26: once the stop key is pressed while start() is running, eventually
\* the listeners are stopped, the log is flushed and start() has returned.
C26_StopLeadsToReturn ==
    (hist.stopped /\ StartRunning) ~>
        (mainpc = "done" /\ flushes = 1 /\ ~listening.mouse /\ ~listening.keyboard)

\* the stop key was pressed, the loop ended, and a KeyboardInterrupt arrived
\* before _save_and_cleanup's first statement: start() was left by the
\* exception with the pointer listener still running and nothing flushed
C26_Witness ==
    /\ hist.stopped /\ hist.interrupts = 1
    /\ mainpc = "aborted"
    /\ running /\ listening.mouse
    /\ flushes = 0


\* C27: with OCR available, the sum of the rewards returned by the step
\* calls since the last reset equals prev_score, which the last step
\* reported as info.score; a step whose capture failed returned reward 0
\* and left both unchanged.
C27_RewardSumIsScore ==
    ocr =>
        /\ since_reset.reward_sum = prev_score
        /\ ret.op = "step" =>
              /\ ret.score = since_reset.reward_sum
              /\ ~ret.grabbed => (ret.reward = 0 /\ prev_score = before.prev_score)

\* the score 2 was read by an earlier step; the last step's capture failed
C27_Witness ==
    /\ ocr /\ ret.op = "step" /\ ~ret.grabbed
    /\ ret.reward = 0
    /\ since_reset.steps = 3
    /\ since_reset.reward_sum = 2 /\ prev_score = 2 /\ ret.score = 2

\* C28: every step call increases action_count by exactly 1 and a call that
\* returns reports it as info.actions, so action_count is the number of
\* step calls since the last reset; a call with the action rows*cols + 5
\* issues no input command and leaves turn_count unchanged.
C28_ActionCount ==
    /\ action_count = since_reset.steps
    /\ ret.op \in {"step", "step_raised"} => action_count = before.action_count + 1
    /\ ret.op = "step" => ret.actions = action_count
    /\ (ret.op = "step" /\ ret.action >= grid_size(cfg) + 5) =>
          /\ InputCommands = <<>>
          /\ turn_count = before.turn_count
          /\ ret.turn = before.turn_count

\* the third call of an episode, one turn ended, has the action rows*cols + 5
C28_Witness ==
    /\ ret.op = "step" /\ ret.action = grid_size(cfg) + 5
    /\ since_reset.steps = 3 /\ action_count = 3 /\ ret.actions = 3
    /\ InputCommands = <<>>
    /\ before.turn_count = 1 /\ turn_count = 1

====
